---------------------------- MODULE Spec2Model ----------------------------
(***************************************************************************)
(* Polygon simplicity detection of simple-features: the Shamos-Hoey sweep  *)
(* (ShamosHoey.simplePolygonLineStrings) over the sweep line (SweepLine,   *)
(* SegmentComparator).                                                     *)
(*                                                                         *)
(* Points are pairs <<x, y>> of integers.  The numbers the comparator      *)
(* works on (yValueAtX) are IEEE doubles in the program; here a number is  *)
(* an exact fraction, +Infinity, -Infinity or NaN, with the IEEE rules for *)
(* division by zero, Infinity * 0 and Infinity - Infinity.  Rounding of    *)
(* finite values is not modelled.                                          *)
(***************************************************************************)
EXTENDS Integers, Sequences, FiniteSets, TLC

(* ------------------------------ bounds --------------------------------- *)

\* coordinates of the input points are 0..MaxCoord
MaxCoord == 2

\* a single input ring has at most MaxPts points
MaxPts == 4

\* a hole tried against the sample exteriors has at most MaxHolePts points
MaxHolePts == 3

\* an absent value: no segment, no message
None == << >>

\* a value that is set (the comparator's x; unset is None)
Some(v) == << v >>
Val(o) == o[1]

(* ------------------------- numbers (doubles) --------------------------- *)

NaN == [k |-> "nan", n |-> 0, d |-> 1]
PInf == [k |-> "pinf", n |-> 0, d |-> 1]
NInf == [k |-> "ninf", n |-> 0, d |-> 1]
Fin(a, b) == [k |-> "fin", n |-> a, d |-> b]
Num(i) == Fin(i, 1)

Sign(i) == IF i > 0 THEN 1 ELSE IF i < 0 THEN -1 ELSE 0

\* the sign of a number that is not NaN
FSign(a) ==
    CASE a.k = "pinf" -> 1
      [] a.k = "ninf" -> -1
      [] OTHER -> Sign(a.n)

InfOf(s) == IF s > 0 THEN PInf ELSE NInf

FNeg(a) ==
    CASE a.k = "nan" -> NaN
      [] a.k = "pinf" -> NInf
      [] a.k = "ninf" -> PInf
      [] OTHER -> Fin(-a.n, a.d)

FAdd(a, b) ==
    CASE a.k = "nan" \/ b.k = "nan" -> NaN
      [] a.k = "fin" /\ b.k = "fin" -> Fin(a.n * b.d + b.n * a.d, a.d * b.d)
      [] a.k = "fin" -> b
      [] b.k = "fin" -> a
      [] a.k = b.k -> a
      [] OTHER -> NaN

FSub(a, b) == FAdd(a, FNeg(b))

FMul(a, b) ==
    CASE a.k = "nan" \/ b.k = "nan" -> NaN
      [] a.k = "fin" /\ b.k = "fin" -> Fin(a.n * b.n, a.d * b.d)
      [] FSign(a) = 0 \/ FSign(b) = 0 -> NaN
      [] OTHER -> InfOf(FSign(a) * FSign(b))

FDiv(a, b) ==
    CASE a.k = "nan" \/ b.k = "nan" -> NaN
      [] a.k = "fin" /\ b.k = "fin" ->
            IF b.n # 0
            THEN Fin(a.n * b.d * Sign(b.n), a.d * b.n * Sign(b.n))
            ELSE IF a.n = 0 THEN NaN ELSE InfOf(Sign(a.n))
      [] a.k = "fin" -> Num(0)
      [] b.k = "fin" -> InfOf(FSign(a) * (IF FSign(b) < 0 THEN -1 ELSE 1))
      [] OTHER -> NaN

\* a < b on doubles: false whenever one side is NaN
FLess(a, b) ==
    CASE a.k = "nan" \/ b.k = "nan" -> FALSE
      [] a.k = "fin" /\ b.k = "fin" -> a.n * b.d < b.n * a.d
      [] a.k = "ninf" -> b.k # "ninf"
      [] b.k = "pinf" -> a.k # "pinf"
      [] OTHER -> FALSE

(* ------------------------------ points --------------------------------- *)

PX(p) == p[1]
PY(p) == p[2]

xyOrder(point1, point2) ==
    IF PX(point1) > PX(point2) THEN 1
    ELSE IF PX(point1) < PX(point2) THEN -1
    ELSE IF PY(point1) > PY(point2) THEN 1
    ELSE IF PY(point1) < PY(point2) THEN -1
    ELSE 0

isLeftPoints(point0, point1, point2) ==
    (PX(point1) - PX(point0)) * (PY(point2) - PY(point0))
        - (PX(point2) - PX(point0)) * (PY(point1) - PY(point0))

(* ----------------------------- segments ------------------------------- *)

\* the key of a segment: its ring and edge numbers (both zero-based)
Key(ring, edge) == <<ring, edge>>

\* new Segment(edge, ring, left, right): no neighbours yet
Segment(edge, ring, left, right) ==
    [ring |-> ring, edge |-> edge, leftPoint |-> left, rightPoint |-> right,
     above |-> None, below |-> None]

yValueAtX(segment, x) ==
    LET left == segment.leftPoint
        right == segment.rightPoint
        Line(m) ==
            LET b == FSub(Num(PY(left)), FMul(m, Num(PX(left))))
            IN FAdd(FMul(m, Num(x)), b)
    IN Line(FDiv(FSub(Num(PY(right)), Num(PY(left))),
                 FSub(Num(PX(right)), Num(PX(left)))))

\* compare without the order by ring and edge: 0 whenever neither y is the smaller
compare_NoTieBreak(x, segment1, segment2) ==
    LET Order(y1, y2) ==
            IF FLess(y1, y2) THEN -1
            ELSE IF FLess(y2, y1) THEN 1
            ELSE 0
    IN Order(yValueAtX(segment1, Val(x)), yValueAtX(segment2, Val(x)))

\* SegmentComparator.compare at the sweep x (x is set: see Compares)
compare(x, segment1, segment2) ==
    LET Order(y1, y2) ==
            IF FLess(y1, y2) THEN -1
            ELSE IF FLess(y2, y1) THEN 1
            ELSE IF segment1.ring < segment2.ring THEN -1
            ELSE IF segment2.ring < segment1.ring THEN 1
            ELSE IF segment1.edge < segment2.edge THEN -1
            ELSE IF segment2.edge < segment1.edge THEN 1
            ELSE 0
    IN Order(yValueAtX(segment1, Val(x)), yValueAtX(segment2, Val(x)))

isLeft(segment, point) ==
    isLeftPoints(segment.leftPoint, segment.rightPoint, point)

(* --------------------------- status structure -------------------------- *)
(* The balanced tree of segments.  It is held as its in-order sequence of  *)
(* segment keys; a search descends through the midpoints of the sequence,  *)
(* as through the nodes of a perfectly balanced tree, and every comparison *)
(* of the descent is made by the comparator at the x in effect.            *)

RECURSIVE Descend(_, _, _, _, _, _)
Descend(tree, segs, x, key, lo, hi) ==
    IF lo > hi THEN [found |-> FALSE, pos |-> lo]
    ELSE LET mid == (lo + hi) \div 2
             Branch(c) ==
                 IF c = 0 THEN [found |-> TRUE, pos |-> mid]
                 ELSE IF c < 0 THEN Descend(tree, segs, x, key, lo, mid - 1)
                 ELSE Descend(tree, segs, x, key, mid + 1, hi)
         IN Branch(compare(x, segs[key], segs[tree[mid]]))

\* a tree operation compares (and so needs the comparator's x) unless the tree is empty
Compares(tree) == Len(tree) > 0

InsertAt(seq, i, e) == SubSeq(seq, 1, i - 1) \o <<e>> \o SubSeq(seq, i, Len(seq))

RemoveAt(seq, i) == SubSeq(seq, 1, i - 1) \o SubSeq(seq, i + 1, Len(seq))

treeInsert(tree, segs, x, key) ==
    LET Place(d) == IF d.found THEN tree ELSE InsertAt(tree, d.pos, key)
    IN Place(Descend(tree, segs, x, key, 1, Len(tree)))

\* the position of the node holding the segment, 0 when the search misses it
treeFindNode(tree, segs, x, key) ==
    LET Node(d) == IF d.found THEN d.pos ELSE 0
    IN Node(Descend(tree, segs, x, key, 1, Len(tree)))

treeRemove(tree, segs, x, key) ==
    LET Delete(i) ==
            IF i = 0 THEN [tree |-> tree, removed |-> FALSE]
            ELSE [tree |-> RemoveAt(tree, i), removed |-> TRUE]
    IN Delete(treeFindNode(tree, segs, x, key))

getSuccessor(tree, i) == IF i < Len(tree) THEN tree[i + 1] ELSE None

getPredecessor(tree, i) == IF i > 1 THEN tree[i - 1] ELSE None

(* ------------------------------ events --------------------------------- *)

Left == "Left"
Right == "Right"

Event(edge, ring, point, type) ==
    [edge |-> edge, ring |-> ring, point |-> point, type |-> type]

\* the two events of edge i (zero-based) of a ring, in the order of its two points
EdgeEvents(points, ringIndex, i) ==
    LET point1 == points[i + 1]
        point2 == points[((i + 1) % Len(points)) + 1]
    IN IF xyOrder(point1, point2) < 0
       THEN << Event(i, ringIndex, point1, Left), Event(i, ringIndex, point2, Right) >>
       ELSE << Event(i, ringIndex, point1, Right), Event(i, ringIndex, point2, Left) >>

RECURSIVE RingEvents(_, _, _)
RingEvents(points, ringIndex, i) ==
    IF i >= Len(points) THEN << >>
    ELSE EdgeEvents(points, ringIndex, i) \o RingEvents(points, ringIndex, i + 1)

RECURSIVE AllEvents(_, _)
AllEvents(rings, r) ==
    IF r >= Len(rings) THEN << >>
    ELSE RingEvents(rings[r + 1], r, 0) \o AllEvents(rings, r + 1)

\* insert an event behind every event that does not come after it (a stable sort)
RECURSIVE InsertSorted(_, _)
InsertSorted(sorted, e) ==
    IF sorted = << >> THEN << e >>
    ELSE IF xyOrder(Head(sorted).point, e.point) <= 0
         THEN << Head(sorted) >> \o InsertSorted(Tail(sorted), e)
         ELSE << e >> \o sorted

RECURSIVE SortEvents(_, _)
SortEvents(events, sorted) ==
    IF events = << >> THEN sorted
    ELSE SortEvents(Tail(events), InsertSorted(sorted, Head(events)))

\* new EventQueue(rings): the events of all edges, by x and then y of their point
EventQueue(rings) == SortEvents(AllEvents(rings, 0), << >>)

(* ----------------------------- sweep line ----------------------------- *)
(* A sweep line is a record: rings (the ring copies), x (the comparator's  *)
(* x, None while unset), tree (the status structure), segs (every Segment  *)
(* object created, by key, with its above and below references), segments  *)
(* (the keys registered in the ring/edge map), threw (the message of the   *)
(* exception a call raised, None otherwise) and ops (the tree operations   *)
(* of the last call, each with the comparator x it ran under).             *)

\* new SweepLine(rings)
SweepLine(rings) ==
    [rings |-> rings, x |-> None, tree |-> << >>, segs |-> << >>,
     segments |-> {}, threw |-> None, ops |-> << >>]

XNotSet == << "X value not set" >>
NotFound == << "Segment not found" >>

TreeOp(op, key, x, ok) == [op |-> op, seg |-> key, x |-> x, ok |-> ok]

createSegment(rings, event) ==
    LET edgeNumber == event.edge
        ringNumber == event.ring
        points == rings[ringNumber + 1]
        point1 == points[edgeNumber + 1]
        point2 == points[((edgeNumber + 1) % Len(points)) + 1]
    IN IF xyOrder(point1, point2) < 0
       THEN Segment(edgeNumber, ringNumber, point1, point2)
       ELSE Segment(edgeNumber, ringNumber, point2, point1)

\* LinkNeighbours setting the new segment's above and below only: the neighbours
\* are not pointed back at it
LinkNeighbours_OneWay(segs, key, next, previous) ==
    [k \in DOMAIN segs |->
        IF k = key
        THEN [segs[k] EXCEPT !.above = IF next # None THEN next ELSE @,
                             !.below = IF previous # None THEN previous ELSE @]
        ELSE segs[k]]

\* the segment objects with the new segment linked to the nodes next to its node
LinkNeighbours(segs, key, next, previous) ==
    [k \in DOMAIN segs |->
        IF k = key
        THEN [segs[k] EXCEPT !.above = IF next # None THEN next ELSE @,
                             !.below = IF previous # None THEN previous ELSE @]
        ELSE IF k = next /\ k = previous
        THEN [segs[k] EXCEPT !.below = key, !.above = key]
        ELSE IF k = next THEN [segs[k] EXCEPT !.below = key]
        ELSE IF k = previous THEN [segs[k] EXCEPT !.above = key]
        ELSE segs[k]]

\* SweepLine.add(event); the segment it returns is segs[Key(event.ring, event.edge)]
add(sl, event) ==
    LET segment == createSegment(sl.rings, event)
        key == Key(segment.ring, segment.edge)
        x == Some(PX(event.point))
        segs0 == (key :> segment) @@ sl.segs
        \* tree1: the tree after insert; current: the node findNode returns (0: none)
        Link(tree1, current) ==
            LET ops == << TreeOp("insert", key, x, TRUE),
                          TreeOp("findNode", key, x, current # 0) >>
            IN IF current = 0
               THEN [sl EXCEPT !.x = x, !.tree = tree1, !.segs = segs0,
                               !.threw = NotFound, !.ops = ops]
               ELSE [sl EXCEPT !.x = x, !.tree = tree1,
                               !.segs = LinkNeighbours(segs0, key,
                                                       getSuccessor(tree1, current),
                                                       getPredecessor(tree1, current)),
                               !.segments = @ \cup {key},
                               !.ops = ops]
        Inserted(tree1) == Link(tree1, treeFindNode(tree1, segs0, x, key))
    IN Inserted(treeInsert(sl.tree, segs0, x, key))

\* SweepLine.find(event): the registered segment's key, None when it throws
find(sl, event) ==
    IF Key(event.ring, event.edge) \in sl.segments
    THEN Key(event.ring, event.edge)
    ELSE None

\* the number of points of a ring
numPoints(ring) == Len(ring)

\* intersect with the first straddle test only: the end points of segment1 are not
\* tried against the line of segment2
intersect_OneSided(sl, key1, key2) ==
    IF key1 = None \/ key2 = None THEN FALSE
    ELSE LET segment1 == sl.segs[key1]
             segment2 == sl.segs[key2]
             ring1 == segment1.ring
             ring2 == segment2.ring
             edge1 == segment1.edge
             edge2 == segment2.edge
             ringPoints == numPoints(sl.rings[ring1 + 1])
             consecutive == /\ ring1 = ring2
                            /\ \/ (edge1 + 1) % ringPoints = edge2
                               \/ edge1 = (edge2 + 1) % ringPoints
         IN /\ ~consecutive
            /\ isLeft(segment1, segment2.leftPoint)
                 * isLeft(segment1, segment2.rightPoint) <= 0

\* intersect taking edges for consecutive only when their numbers differ by one
\* (the last edge and edge 0 of a ring are then tested)
intersect_NoWrap(sl, key1, key2) ==
    IF key1 = None \/ key2 = None THEN FALSE
    ELSE LET segment1 == sl.segs[key1]
             segment2 == sl.segs[key2]
             consecutive == /\ segment1.ring = segment2.ring
                            /\ \/ segment1.edge + 1 = segment2.edge
                               \/ segment1.edge = segment2.edge + 1
         IN /\ ~consecutive
            /\ isLeft(segment1, segment2.leftPoint)
                 * isLeft(segment1, segment2.rightPoint) <= 0
            /\ isLeft(segment2, segment1.leftPoint)
                 * isLeft(segment2, segment1.rightPoint) <= 0

\* SweepLine.intersect(segment1, segment2) on segment keys (None: undefined)
intersect(sl, key1, key2) ==
    IF key1 = None \/ key2 = None THEN FALSE
    ELSE LET segment1 == sl.segs[key1]
             segment2 == sl.segs[key2]
             ring1 == segment1.ring
             ring2 == segment2.ring
             edge1 == segment1.edge
             edge2 == segment2.edge
             ringPoints == numPoints(sl.rings[ring1 + 1])
             consecutive == /\ ring1 = ring2
                            /\ \/ (edge1 + 1) % ringPoints = edge2
                               \/ edge1 = (edge2 + 1) % ringPoints
         IN /\ ~consecutive
            /\ isLeft(segment1, segment2.leftPoint)
                 * isLeft(segment1, segment2.rightPoint) <= 0
            /\ isLeft(segment2, segment1.leftPoint)
                 * isLeft(segment2, segment1.rightPoint) <= 0

\* the segment objects after the removed segment's neighbours are joined
Splice(segs, key) ==
    LET above == segs[key].above
        below == segs[key].below
    IN [k \in DOMAIN segs |->
          IF k = above /\ k = below
          THEN [segs[k] EXCEPT !.below = below, !.above = above]
          ELSE IF k = above THEN [segs[k] EXCEPT !.below = below]
          ELSE IF k = below THEN [segs[k] EXCEPT !.above = above]
          ELSE segs[k]]

\* SweepLine.remove(segment)
remove(sl, key) ==
    IF Compares(sl.tree) /\ sl.x = None
    THEN [sl EXCEPT !.threw = XNotSet, !.ops = << >>]
    ELSE
    LET x2 == Some(PX(sl.segs[key].leftPoint))
        \* first, second: what the two calls of tree.remove come to
        Removed(first, second) ==
            LET removed == first.removed /\ second.removed
                op1 == TreeOp("remove", key, sl.x, first.removed)
            IN IF ~first.removed
               THEN [sl EXCEPT !.ops = << op1 >>]
               ELSE IF ~removed
               THEN [sl EXCEPT !.x = x2, !.tree = second.tree,
                               !.ops = << op1, TreeOp("remove", key, x2, FALSE) >>]
               ELSE [sl EXCEPT !.x = x2, !.tree = second.tree,
                               !.segs = Splice(sl.segs, key),
                               !.segments = @ \ {key},
                               !.ops = << op1, TreeOp("remove", key, x2, TRUE) >>]
        Again(first) == Removed(first, treeRemove(first.tree, sl.segs, x2, key))
    IN Again(treeRemove(sl.tree, sl.segs, sl.x, key))

(* --------------------------- ring preprocessor ------------------------- *)

\* GeometryUtils.pointInPolygonRing / pointInPolygonRingPoints: the answer of the
\* point-in-ring primitive for the first point of ring a against ring b
pointInPolygonRing(inside, a, b) == inside[<<a, b>>]

\* RingCopy keeping the last point even when identical to the first
RingCopy_KeepLast(ring) == ring

\* RingCopy dropping the last point without comparing it with the first
RingCopy_DropUnchecked(ring) ==
    IF Len(ring) >= 3 THEN SubSeq(ring, 1, Len(ring) - 1) ELSE ring

\* the copy of a ring, without its last point when identical to the first
RingCopy(ring) ==
    IF /\ Len(ring) >= 3
       /\ PX(ring[1]) = PX(ring[Len(ring)])
       /\ PY(ring[1]) = PY(ring[Len(ring)])
    THEN SubSeq(ring, 1, Len(ring) - 1)
    ELSE ring

\* PreprocessRing without the check of a hole's first point against ring 0
PreprocessRing_NoExteriorCheck(rings, inside, i) ==
    LET ringCopyPoints == RingCopy(rings[i + 1])
    IN [copy |-> ringCopyPoints,
        simple |->
          /\ Len(ringCopyPoints) >= 3
          /\ \A j \in 1 .. (i - 1) :
                ~ \/ pointInPolygonRing(inside, i, j)
                  \/ pointInPolygonRing(inside, j, i)]

\* one pass of the loop over the rings, for ring i (zero-based)
PreprocessRing(rings, inside, i) ==
    LET ringCopyPoints == RingCopy(rings[i + 1])
    IN [copy |-> ringCopyPoints,
        simple |->
          /\ Len(ringCopyPoints) >= 3
          /\ i > 0 =>
               /\ pointInPolygonRing(inside, i, 0)
               /\ \A j \in 1 .. (i - 1) :
                     ~ \/ pointInPolygonRing(inside, i, j)
                       \/ pointInPolygonRing(inside, j, i)]

(* --------------------------- sweep controller -------------------------- *)

\* ProcessEvent with a Left event stopping the sweep only on the below neighbour
ProcessEvent_IgnoreAbove(sl, event) ==
    IF event.type = Left
    THEN LET segment == Key(event.ring, event.edge)
             \* sl1: the sweep line after add
             Check(sl1) ==
                 LET below == intersect(sl1, segment, sl1.segs[segment].below)
                     above == intersect(sl1, segment, sl1.segs[segment].above)
                 IN IF sl1.threw # None
                    THEN [sl |-> sl1, stop |-> FALSE, checked |-> {}]
                    ELSE [sl |-> sl1, stop |-> below,
                          checked |-> IF below THEN {TRUE} ELSE {FALSE, above}]
         IN Check(add(sl, event))
    ELSE LET segment == find(sl, event)
             hit == intersect(sl, sl.segs[segment].above, sl.segs[segment].below)
         IN IF segment = None   \* find throws
            THEN [sl |-> [sl EXCEPT !.threw = NotFound, !.ops = << >>],
                  stop |-> FALSE, checked |-> {}]
            ELSE IF hit
            THEN [sl |-> [sl EXCEPT !.ops = << >>], stop |-> TRUE, checked |-> {TRUE}]
            ELSE [sl |-> remove(sl, segment), stop |-> FALSE, checked |-> {FALSE}]

\* ProcessEvent taking a Right event whose segment is not registered for a hit:
\* the lookup's failure sets simple to false instead of being thrown
ProcessEvent_FindSwallowed(sl, event) ==
    IF event.type = Left
    THEN LET segment == Key(event.ring, event.edge)
             Check(sl1) ==
                 LET below == intersect(sl1, segment, sl1.segs[segment].below)
                     above == intersect(sl1, segment, sl1.segs[segment].above)
                 IN IF sl1.threw # None
                    THEN [sl |-> sl1, stop |-> FALSE, checked |-> {}]
                    ELSE [sl |-> sl1, stop |-> below \/ above,
                          checked |-> IF below THEN {TRUE} ELSE {FALSE, above}]
         IN Check(add(sl, event))
    ELSE LET segment == find(sl, event)
             hit == intersect(sl, sl.segs[segment].above, sl.segs[segment].below)
         IN IF segment = None
            THEN [sl |-> [sl EXCEPT !.ops = << >>], stop |-> TRUE, checked |-> {}]
            ELSE IF hit
            THEN [sl |-> [sl EXCEPT !.ops = << >>], stop |-> TRUE, checked |-> {TRUE}]
            ELSE [sl |-> remove(sl, segment), stop |-> FALSE, checked |-> {FALSE}]

\* the body of the loop over the events, for one event: the sweep line after it,
\* whether it set simple to false, and what the intersection checks it made returned
ProcessEvent(sl, event) ==
    IF event.type = Left
    THEN LET segment == Key(event.ring, event.edge)
             \* sl1: the sweep line after add
             Check(sl1) ==
                 LET below == intersect(sl1, segment, sl1.segs[segment].below)
                     above == intersect(sl1, segment, sl1.segs[segment].above)
                 IN IF sl1.threw # None
                    THEN [sl |-> sl1, stop |-> FALSE, checked |-> {}]
                    ELSE [sl |-> sl1, stop |-> below \/ above,
                          checked |-> IF below THEN {TRUE} ELSE {FALSE, above}]
         IN Check(add(sl, event))
    ELSE LET segment == find(sl, event)
             hit == intersect(sl, sl.segs[segment].above, sl.segs[segment].below)
         IN IF segment = None   \* find throws
            THEN [sl |-> [sl EXCEPT !.threw = NotFound, !.ops = << >>],
                  stop |-> FALSE, checked |-> {}]
            ELSE IF hit
            THEN [sl |-> [sl EXCEPT !.ops = << >>], stop |-> TRUE, checked |-> {TRUE}]
            ELSE [sl |-> remove(sl, segment), stop |-> FALSE, checked |-> {FALSE}]

\* what a call comes to: the boolean it returns, or Threw when it throws
Threw == "threw"
Returns(b) == IF b THEN "true" ELSE "false"

\* the loop over the events
RECURSIVE RunSweep(_, _)
RunSweep(sl, events) ==
    IF events = << >> THEN Returns(TRUE)
    ELSE LET Continue(r) ==
                 IF r.sl.threw # None THEN Threw
                 ELSE IF r.stop THEN Returns(FALSE)
                 ELSE RunSweep(r.sl, Tail(events))
         IN Continue(ProcessEvent(sl, Head(events)))

RECURSIVE RingCopies(_, _, _)
RingCopies(rings, inside, i) ==
    IF i >= Len(rings) THEN << >>
    ELSE << RingCopy(rings[i + 1]) >> \o RingCopies(rings, inside, i + 1)

\* the rings pass the loop over the rings with simple still true
ValidRings(rings, inside) ==
    /\ Len(rings) # 0
    /\ \A i \in 0 .. (Len(rings) - 1) : PreprocessRing(rings, inside, i).simple

\* ShamosHoey.simplePolygonLineStrings(rings) as a function of its input
simplePolygonLineStrings(rings, inside) ==
    IF ~ValidRings(rings, inside) THEN Returns(FALSE)
    ELSE LET ringCopies == RingCopies(rings, inside, 0)
         IN RunSweep(SweepLine(ringCopies), EventQueue(ringCopies))

(* ------------------------------- inputs -------------------------------- *)

Points == (0 .. MaxCoord) \X (0 .. MaxCoord)

RingsUpTo(n) == UNION { [1 .. k -> Points] : k \in 0 .. n }

\* exteriors that enclose every point of the grid
OuterTriangle ==
    << <<-1, -1>>, <<2 * MaxCoord + 2, -1>>, <<-1, 2 * MaxCoord + 2>> >>

OuterSquare ==
    << <<-1, -1>>, <<MaxCoord + 1, -1>>, <<MaxCoord + 1, MaxCoord + 1>>,
       <<-1, MaxCoord + 1>> >>

SampleHoles ==
    { << <<0, 0>>, <<1, 0>>, <<0, 1>> >>,
      << <<1, 1>>, <<0, 1>>, <<1, 0>>, <<1, 1>> >>,
      << <<0, 0>>, <<1, 1>> >> }

\* the ring lists tried: no ring, one ring, an exterior with one or two holes
Inputs ==
    {<< >>}
        \cup { << r >> : r \in RingsUpTo(MaxPts) }
        \cup { << OuterTriangle, h >> : h \in RingsUpTo(MaxHolePts) }
        \cup { << e, h1, h2 >> : e \in {OuterTriangle, OuterSquare},
                                 h1 \in SampleHoles, h2 \in SampleHoles }

\* the answers the point-in-ring primitive may give on the rings
Oracles(rings) ==
    [ { <<a, b>> \in (1 .. Len(rings) - 1) \X (0 .. Len(rings) - 1) : a # b }
        -> BOOLEAN ]

(* ---------------------------- state machine ---------------------------- *)

VARIABLES
    rings,       \* the argument of simplePolygonLineStrings
    inside,      \* the answers of the point-in-ring primitive
    pc,          \* "Rings": in the loop over the rings; "Events": in the loop
                 \* over the events; "Done": returned; "Threw": left by an exception
    ringCopies,  \* the ring copies pushed so far
    simple,      \* the local variable simple
    queue,       \* the events the iterator has not yet handed out
    sl,          \* the sweep line
    event,       \* the event of the last pass of the loop over the events (None: no pass yet)
    checked,     \* what the intersection checks of that pass returned
    hit,         \* some intersection check of the sweep has returned true
    result,      \* what the call came to (None while it runs)
    outcome,     \* what the calls on the ring and on its variants came to
    pointFiniteFilter,  \* a PointFiniteFilter: its _type, _filterZ and _filterM
    geometry,    \* the geometry last handed to the filter (None: none yet)
    passes,      \* what that call of filter came to (None: no call yet)
    collection,  \* an ExtendedGeometryCollection (None: none created)
    copied       \* the collection its copy() returned (None: no copy, or the
                 \* collection was changed since)

\* the variables of the geometry classes, which the simplicity check does not touch
geometryVars == << pointFiniteFilter, geometry, passes, collection, copied >>

vars == << rings, inside, pc, ringCopies, simple, queue, sl, event, checked, hit, result,
          outcome, pointFiniteFilter, geometry, passes, collection, copied >>

\* no geometry object is in use
NoGeometry ==
    /\ pointFiniteFilter = None
    /\ geometry = None
    /\ passes = None
    /\ collection = None
    /\ copied = None

Init ==
    /\ rings \in Inputs
    /\ inside \in Oracles(rings)
    /\ pc = "Rings"
    /\ ringCopies = << >>
    /\ simple = (Len(rings) # 0)
    /\ queue = << >>
    /\ sl = SweepLine(<< >>)
    /\ event = None
    /\ checked = {}
    /\ hit = FALSE
    /\ result = None
    /\ outcome = None
    /\ NoGeometry

\* NextRing with the ring copy sharing the point list of the input ring: the
\* closing point is dropped from the input ring as well
NextRing_Aliased ==
    /\ pc = "Rings"
    /\ simple
    /\ Len(ringCopies) < Len(rings)
    /\ LET r == PreprocessRing(rings, inside, Len(ringCopies))
       IN /\ ringCopies' = Append(ringCopies, r.copy)
          /\ simple' = r.simple
          /\ rings' = [rings EXCEPT ![Len(ringCopies) + 1] = r.copy]
    /\ UNCHANGED << inside, pc, queue, sl, event, checked, hit, result, outcome >>
    /\ UNCHANGED geometryVars

\* one pass of the loop over the rings
NextRing ==
    /\ pc = "Rings"
    /\ simple
    /\ Len(ringCopies) < Len(rings)
    /\ LET r == PreprocessRing(rings, inside, Len(ringCopies))
       IN /\ ringCopies' = Append(ringCopies, r.copy)
          /\ simple' = r.simple
    /\ UNCHANGED << rings, inside, pc, queue, sl, event, checked, hit, result, outcome >>
    /\ UNCHANGED geometryVars

\* the loop over the rings is left with simple false: nothing is swept
Reject ==
    /\ pc = "Rings"
    /\ ~simple
    /\ pc' = "Done"
    /\ result' = Some(Returns(simple))
    /\ UNCHANGED << rings, inside, ringCopies, simple, queue, sl, event, checked, hit, outcome >>
    /\ UNCHANGED geometryVars

\* valid polygon rings: the event queue and the sweep line are built
StartSweep ==
    /\ pc = "Rings"
    /\ simple
    /\ Len(ringCopies) = Len(rings)
    /\ queue' = EventQueue(ringCopies)
    /\ sl' = SweepLine(ringCopies)
    /\ pc' = "Events"
    /\ UNCHANGED << rings, inside, ringCopies, simple, event, checked, hit, result, outcome >>
    /\ UNCHANGED geometryVars

\* one pass of the loop over the events
Process(type) ==
    /\ pc = "Events"
    /\ simple
    /\ queue # << >>
    /\ Head(queue).type = type
    /\ LET Take(r) ==
               /\ sl' = r.sl
               /\ checked' = r.checked
               /\ hit' = (hit \/ TRUE \in r.checked)
               /\ simple' = ~r.stop
               /\ pc' = IF r.sl.threw # None THEN "Threw" ELSE pc
               /\ result' = IF r.sl.threw # None THEN Some(Threw) ELSE result
       IN Take(ProcessEvent(sl, Head(queue)))
    /\ event' = Some(Head(queue))
    /\ queue' = Tail(queue)
    /\ UNCHANGED << rings, inside, ringCopies, outcome >>
    /\ UNCHANGED geometryVars

ProcessLeft == Process(Left)

ProcessRight == Process(Right)

\* Return returning true whatever simple is
Return_True ==
    /\ pc = "Events"
    /\ (~simple \/ queue = << >>)
    /\ pc' = "Done"
    /\ result' = Some(Returns(TRUE))
    /\ UNCHANGED << rings, inside, ringCopies, simple, queue, sl, event, checked, hit, outcome >>
    /\ UNCHANGED geometryVars

\* the loop over the events is left, by break or at the end of the queue
Return ==
    /\ pc = "Events"
    /\ (~simple \/ queue = << >>)
    /\ pc' = "Done"
    /\ result' = Some(Returns(simple))
    /\ UNCHANGED << rings, inside, ringCopies, simple, queue, sl, event, checked, hit, outcome >>
    /\ UNCHANGED geometryVars

Next ==
    \/ NextRing
    \/ Reject
    \/ StartSweep
    \/ ProcessLeft
    \/ ProcessRight
    \/ Return

Spec == Init /\ [][Next]_vars

(* ------------------- the result as a function of a ring ----------------- *)
(* A second specification: one ring is drawn, and the calls on the ring, on *)
(* the ring with its first point appended, and on the ring reversed are     *)
(* made one after the other.                                                *)

\* the ring with its first point appended as a closing point
Closed(ring) == Append(ring, ring[1])

\* the ring with its points in reverse order
Reversed(ring) == [n \in 1 .. Len(ring) |-> ring[Len(ring) + 1 - n]]

\* ShamosHoey.simplePolygonLineString(ring)
simplePolygonLineString(ring) == simplePolygonLineStrings(<< ring >>, << >>)

NoOutcome == [given |-> None, closed |-> None, reversed |-> None]

InitCalls ==
    /\ rings \in { << r >> : r \in RingsUpTo(MaxPts) \ {<< >>} }
    /\ inside = << >>
    /\ pc = "Calls"
    /\ ringCopies = << >>
    /\ simple = TRUE
    /\ queue = << >>
    /\ sl = SweepLine(<< >>)
    /\ event = None
    /\ checked = {}
    /\ hit = FALSE
    /\ result = None
    /\ outcome = NoOutcome
    /\ NoGeometry

CallGiven ==
    /\ pc = "Calls"
    /\ outcome.given = None
    /\ outcome' = [outcome EXCEPT !.given = Some(simplePolygonLineString(rings[1]))]
    /\ UNCHANGED << rings, inside, pc, ringCopies, simple, queue, sl, event, checked, hit,
                    result >>
    /\ UNCHANGED geometryVars

CallClosed ==
    /\ pc = "Calls"
    /\ outcome.given # None
    /\ outcome.closed = None
    /\ outcome' =
          [outcome EXCEPT !.closed = Some(simplePolygonLineString(Closed(rings[1])))]
    /\ UNCHANGED << rings, inside, pc, ringCopies, simple, queue, sl, event, checked, hit,
                    result >>
    /\ UNCHANGED geometryVars

CallReversed ==
    /\ pc = "Calls"
    /\ outcome.closed # None
    /\ outcome.reversed = None
    /\ outcome' =
          [outcome EXCEPT !.reversed = Some(simplePolygonLineString(Reversed(rings[1])))]
    /\ UNCHANGED << rings, inside, pc, ringCopies, simple, queue, sl, event, checked, hit,
                    result >>
    /\ UNCHANGED geometryVars

NextCalls ==
    \/ CallGiven
    \/ CallClosed
    \/ CallReversed

SpecCalls == InitCalls /\ [][NextCalls]_vars

(* ------------------------------ properties ----------------------------- *)

Range(seq) == { seq[n] : n \in DOMAIN seq }

\* the event of the last pass of the loop over the events, and its segment
LastEvent == Val(event)
LastKey == Key(LastEvent.ring, LastEvent.edge)

\* the last pass handled an event of the type and did not throw
Handled(type) == event # None /\ LastEvent.type = type /\ pc # "Threw"

\* the number of points of a ring once a duplicate closing point is dropped
PointsLeft(ring) ==
    IF Len(ring) >= 2 /\ ring[1] = ring[Len(ring)] THEN Len(ring) - 1 ELSE Len(ring)

\* some ring has fewer than 3 points once its closing point is dropped
SomeRingTooShort == \E n \in DOMAIN rings : PointsLeft(rings[n]) < 3

\* the first point of some hole is not inside ring 0
SomeHoleOutside ==
    \E n \in 1 .. (Len(rings) - 1) : ~pointInPolygonRing(inside, n, 0)

\* nothing of the sweep has happened: no event consumed, no segment created
NothingSwept ==
    /\ pc \notin {"Events", "Threw"}
    /\ event = None
    /\ queue = << >>
    /\ sl = SweepLine(<< >>)

\* C1: for rings that pass preprocessing, the call returns true exactly when the
\* queue is exhausted and no intersection check returned true, and false exactly
\* when some check returned true; a returned result is one of the two.
C1_ResultIffNoHit ==
    (pc = "Done" /\ ValidRings(rings, inside)) =>
        /\ result \in {Some(Returns(TRUE)), Some(Returns(FALSE))}
        /\ result = Some(Returns(TRUE)) <=> (queue = << >> /\ ~hit)
        /\ result = Some(Returns(FALSE)) <=> hit

C1_Witness ==
    /\ pc = "Done"
    /\ ValidRings(rings, inside)
    /\ result = Some(Returns(FALSE))
    /\ hit
    /\ queue # << >>
    /\ Len(sl.tree) >= 2

\* the step is a pass of the loop over the events, for an event of the type
Pass(type) ==
    /\ pc = "Events"
    /\ simple
    /\ queue # << >>
    /\ Head(queue).type = type
    /\ event' = Some(Head(queue))
    /\ queue' = Tail(queue)

\* the segment of the event the pass is about to take
NextKey == Key(Head(queue).ring, Head(queue).edge)

\* the intersection checks of a Left event, on the segment just added
LeftCheck ==
    \/ intersect(sl, LastKey, sl.segs[LastKey].below)
    \/ intersect(sl, LastKey, sl.segs[LastKey].above)

\* C2: after a Left event the segment exists and is in the status structure, and
\* if it intersects its below or its above neighbour the sweep is NotSimple (simple
\* is false); once NotSimple, no event is consumed and the sweep line is not touched.
C2_LeftEvent ==
    /\ [](Handled(Left) =>
            /\ LastKey \in DOMAIN sl.segs
            /\ LastKey \in Range(sl.tree)
            /\ LeftCheck => ~simple)
    /\ [][(Handled(Left) /\ ~simple) =>
            (queue' = queue /\ sl' = sl /\ event' = event /\ ~simple')]_vars

C2_Witness ==
    /\ Handled(Left)
    /\ pc = "Done"
    /\ ~intersect(sl, LastKey, sl.segs[LastKey].below)
    /\ intersect(sl, LastKey, sl.segs[LastKey].above)
    /\ queue # << >>
    /\ result = Some(Returns(FALSE))

\* C3: a Right event whose segment's above and below intersect makes the sweep
\* NotSimple and leaves the segment in place; otherwise the segment is removed
\* from the status structure and the sweep goes on.
C3_RightEvent ==
    [][(Pass(Right) /\ find(sl, Head(queue)) # None) =>
          IF intersect(sl, sl.segs[NextKey].above, sl.segs[NextKey].below)
          THEN ~simple' /\ sl'.tree = sl.tree /\ sl'.segments = sl.segments
          ELSE /\ NextKey \notin Range(sl'.tree)
               /\ simple'
               /\ pc' = "Events"]_vars

\* C4: when remove is called for a segment that is in the status structure, its
\* above neighbour's below becomes its former below, its below neighbour's above
\* becomes its former above, and no segment of the status structure refers to it.
C4_RemoveSplices ==
    [][(/\ Pass(Right)
        /\ find(sl, Head(queue)) # None
        /\ ~intersect(sl, sl.segs[NextKey].above, sl.segs[NextKey].below)
        /\ NextKey \in Range(sl.tree)) =>
          LET above == sl.segs[NextKey].above
              below == sl.segs[NextKey].below
          IN /\ above # None => sl'.segs[above].below = below
             /\ below # None => sl'.segs[below].above = above
             /\ \A k \in Range(sl'.tree) :
                   /\ sl'.segs[k].above # NextKey
                   /\ sl'.segs[k].below # NextKey]_vars

\* C5: between two events the registry holds exactly the segments of the status
\* structure.
C5_RegistryIsStatus ==
    pc = "Events" => sl.segments = Range(sl.tree)

\* C6: every status structure operation runs under the x set for it: an insertion
\* under the x of the Left event's point, a removal under the x of the segment's
\* left point.
C6_XSetBeforeOperation ==
    \A n \in DOMAIN sl.ops :
        /\ sl.ops[n].op \in {"insert", "findNode"} =>
              sl.ops[n].x = Some(PX(LastEvent.point))
        /\ sl.ops[n].op = "remove" =>
              sl.ops[n].x = Some(PX(sl.segs[sl.ops[n].seg].leftPoint))

\* C7: a ring with fewer than 3 points after the closing point is dropped makes the
\* call return false, without throwing and without sweeping.
C7_TooFewPoints ==
    SomeRingTooShort =>
        /\ NothingSwept
        /\ pc = "Done" => result = Some(Returns(FALSE))

C7_Witness ==
    /\ pc = "Done"
    /\ result = Some(Returns(FALSE))
    /\ Len(rings) = 1
    /\ Len(rings[1]) = 3
    /\ PointsLeft(rings[1]) = 2

\* C8: a hole whose first point is not inside ring 0 makes the result false and the
\* sweep never runs, whatever the rings look like.
C8_HoleOutside ==
    SomeHoleOutside =>
        /\ NothingSwept
        /\ pc = "Done" => result = Some(Returns(FALSE))

C8_Witness ==
    /\ pc = "Done"
    /\ result = Some(Returns(FALSE))
    /\ SomeHoleOutside
    /\ ~SomeRingTooShort
    /\ simplePolygonLineStrings(<< rings[1] >>, << >>) = Returns(TRUE)
    /\ simplePolygonLineStrings(<< rings[2] >>, << >>) = Returns(TRUE)

\* the ring's last point is a copy of its first point
EndsWithFirst(ring) == Len(ring) >= 2 /\ ring[1] = ring[Len(ring)]

\* both calls returned a result
Returned(a, b) == a # None /\ b # None /\ Val(a) # Threw /\ Val(b) # Threw

\* C9 as stated: for any ring, also one that already ends with a copy of its first
\* point, the result for the ring and the result for the ring with its first point
\* appended are the same.
C9_ClosureIdempotence ==
    Returned(outcome.given, outcome.closed) => outcome.closed = outcome.given

\* C9 amended: for a ring that does not already end with a copy of its first point,
\* the call on the ring and the call on the ring with its first point appended come
\* to the same (the same result, or both throw).
C9_ClosureOfOpenRing ==
    (outcome.closed # None /\ ~EndsWithFirst(rings[1])) =>
        outcome.closed = outcome.given

C9_Witness ==
    /\ outcome.closed = Some(Returns(TRUE))
    /\ ~EndsWithFirst(rings[1])
    /\ Len(rings[1]) = 4

\* C10: the result for a ring and the result for the ring with its points reversed
\* are the same.
C10_OrientationInvariance ==
    Returned(outcome.given, outcome.reversed) => outcome.reversed = outcome.given

\* two edges of one ring that follow one another around the ring, the last edge and
\* edge 0 included (the ring's points are counted after the closing point is dropped)
CyclicallyConsecutive(k1, k2) ==
    /\ k1[1] = k2[1]
    /\ LET n == Len(ringCopies[k1[1] + 1])
       IN (k2[2] - k1[2]) % n \in {1, n - 1}

\* C11: intersect is false for any two segments of one ring whose edges are
\* cyclically consecutive, whatever their coordinates, and false when an argument
\* is absent.
C11_AdjacencyExclusion ==
    pc \in {"Events", "Done", "Threw"} =>
        \A k1 \in DOMAIN sl.segs :
            /\ ~intersect(sl, k1, None)
            /\ ~intersect(sl, None, k1)
            /\ \A k2 \in DOMAIN sl.segs :
                  CyclicallyConsecutive(k1, k2) => ~intersect(sl, k1, k2)

\* the last edge and edge 0 of a ring of four points are both on the sweep line
C11_Witness ==
    /\ pc = "Events"
    /\ Len(ringCopies) = 1
    /\ Len(ringCopies[1]) = 4
    /\ {Key(0, 0), Key(0, 3)} \subseteq DOMAIN sl.segs
    /\ CyclicallyConsecutive(Key(0, 3), Key(0, 0))
    /\ ~intersect(sl, None, None)

\* the segment's y value at the sweep x is a number (that of a vertical segment at
\* its own x is NaN)
HasY(segment) == yValueAtX(segment, Val(sl.x)).k # "nan"

\* the order by ring ascending, then edge ascending
RingEdgeOrder(segment1, segment2) ==
    IF segment1.ring # segment2.ring
    THEN (IF segment1.ring < segment2.ring THEN -1 ELSE 1)
    ELSE IF segment1.edge # segment2.edge
    THEN (IF segment1.edge < segment2.edge THEN -1 ELSE 1)
    ELSE 0

\* compare at x is a strict total order on the segments of the set
StrictTotalOrder(x, S) ==
    \A s1 \in S : \A s2 \in S :
        /\ compare(x, s1, s2) = 0 => (s1.ring = s2.ring /\ s1.edge = s2.edge)
        /\ compare(x, s1, s2) = -compare(x, s2, s1)
        /\ yValueAtX(s1, Val(x)) = yValueAtX(s2, Val(x)) =>
              compare(x, s1, s2) = RingEdgeOrder(s1, s2)
        /\ \A s3 \in S :
              (compare(x, s1, s2) < 0 /\ compare(x, s2, s3) < 0) =>
                  compare(x, s1, s3) < 0

\* the segments the sweep line has created
Created == { sl.segs[k] : k \in DOMAIN sl.segs }

\* C12 as stated: at the sweep x, compare is a strict total order on the segments:
\* 0 only for the same ring and edge, antisymmetric, transitive, and by ring and
\* then edge when the y values are equal.
C12_StrictTotalOrder ==
    sl.x # None => StrictTotalOrder(sl.x, Created)

\* C12 amended: the same on the segments whose y value at the sweep x is not NaN.
C12_StrictTotalOrderOnNumbers ==
    sl.x # None => StrictTotalOrder(sl.x, { s \in Created : HasY(s) })

\* three segments with a y value at the sweep x, two of them with the same
C12_Witness ==
    /\ sl.x # None
    /\ Cardinality({ s \in Created : HasY(s) }) >= 3
    /\ \E s1 \in Created : \E s2 \in Created :
          /\ HasY(s1) /\ HasY(s2)
          /\ s1.edge < s2.edge
          /\ yValueAtX(s1, Val(sl.x)) = yValueAtX(s2, Val(sl.x))
          /\ compare(sl.x, s1, s2) = -1
          /\ compare(sl.x, s2, s1) = 1

\* the pass about to be made breaks an internal invariant: the lookup of a Right
\* event finds no registered segment, the node of an inserted segment cannot be
\* found, or a removal compares segments while the comparator's x is unset
LookupFails == Pass(Right) /\ NextKey \notin sl.segments
NodeMissing == Pass(Left) /\ add(sl, Head(queue)).threw = NotFound
ComparesUnset ==
    /\ Pass(Right)
    /\ NextKey \in sl.segments
    /\ ~intersect(sl, sl.segs[NextKey].above, sl.segs[NextKey].below)
    /\ Compares(sl.tree)
    /\ sl.x = None

Edges == { k \in (0 .. Len(ringCopies) - 1) \X (0 .. MaxPts - 1) :
             k[2] < Len(ringCopies[k[1] + 1]) }

\* the two end points of an edge, in the order of the ring
EdgeFrom(k) == ringCopies[k[1] + 1][k[2] + 1]
EdgeTo(k) == ringCopies[k[1] + 1][((k[2] + 1) % Len(ringCopies[k[1] + 1])) + 1]

\* the open segments of the two edges cross in one point interior to both
ProperlyCross(k1, k2) ==
    /\ isLeftPoints(EdgeFrom(k1), EdgeTo(k1), EdgeFrom(k2))
          * isLeftPoints(EdgeFrom(k1), EdgeTo(k1), EdgeTo(k2)) < 0
    /\ isLeftPoints(EdgeFrom(k2), EdgeTo(k2), EdgeFrom(k1))
          * isLeftPoints(EdgeFrom(k2), EdgeTo(k2), EdgeTo(k1)) < 0

\* two edges that are not consecutive properly cross
SomeProperCrossing ==
    \E k1 \in Edges : \E k2 \in Edges :
        k1 # k2 /\ ~CyclicallyConsecutive(k1, k2) /\ ProperlyCross(k1, k2)

\* C14: when the rings pass preprocessing and two edges that are not consecutive
\* properly cross, a call that returns returns false.
C14_CrossingDetected ==
    (pc = "Done" /\ ValidRings(rings, inside) /\ SomeProperCrossing) =>
        result = Some(Returns(FALSE))

Finite == "Finite"
FiniteAndInfinite == "FiniteAndInfinite"
FiniteAndNan == "FiniteAndNan"
FiniteFilterType == {Finite, FiniteAndInfinite, FiniteAndNan}

\* Number.isFinite and Number.isNaN
isFinite(value) == value.k = "fin"
isNaN(value) == value.k = "nan"

\* new PointFiniteFilter(type, filterZ, filterM)
PointFiniteFilter(type, filterZ, filterM) ==
    [type |-> type, filterZ |-> filterZ, filterM |-> filterM]

\* filterValue(value); the filter's type is one of the three of FiniteFilterType
filterValue(f, value) ==
    CASE f.type = Finite -> isFinite(value)
      [] f.type = FiniteAndInfinite -> ~isNaN(value)
      [] f.type = FiniteAndNan -> isFinite(value) \/ isNaN(value)

\* filterZ(point): Threw, or what it returns
filterZ(f, point) ==
    IF point.z = None THEN Threw
    ELSE Returns(~(f.filterZ /\ point.hasZ) \/ filterValue(f, Val(point.z)))

\* filterM(point): Threw, or what it returns
filterM(f, point) ==
    IF point.m = None THEN Threw
    ELSE Returns(~(f.filterM /\ point.hasM) \/ filterValue(f, Val(point.m)))

\* filterPoint(point): the conjunction, evaluated from the left
filterPoint(f, point) ==
    IF ~filterValue(f, point.x) THEN Returns(FALSE)
    ELSE IF ~filterValue(f, point.y) THEN Returns(FALSE)
    ELSE IF filterZ(f, point) # Returns(TRUE) THEN filterZ(f, point)
    ELSE filterM(f, point)

\* filter(containingType, geometry)
filter(f, g) ==
    IF g.geometryType # "Point" \/ ~g.point THEN Returns(TRUE)
    ELSE filterPoint(f, g)

\* the values of a coordinate
Doubles == {Num(0), NaN, PInf, NInf}

\* the values of z and of m: undefined, or a number
Optionals == {None} \cup {Some(v) : v \in {Num(0), NaN}}

\* the geometries handed to the filter: points, and geometries that are not points
Geometries ==
    [geometryType : {"Point"}, point : {TRUE}, x : Doubles, y : Doubles,
     z : Optionals, m : Optionals, hasZ : BOOLEAN, hasM : BOOLEAN]
    \cup
    [geometryType : {"LineString", "Polygon"}, point : {FALSE}, x : {NaN}, y : {PInf},
     z : {None}, m : {None}, hasZ : {FALSE}, hasM : {FALSE}]

\* the simplicity check is not running
NoSweep ==
    /\ rings = << >>
    /\ inside = << >>
    /\ pc = "Filter"
    /\ ringCopies = << >>
    /\ simple = TRUE
    /\ queue = << >>
    /\ sl = SweepLine(<< >>)
    /\ event = None
    /\ checked = {}
    /\ hit = FALSE
    /\ result = None
    /\ outcome = None

sweepVars == << rings, inside, pc, ringCopies, simple, queue, sl, event, checked, hit,
               result, outcome >>

InitFilter ==
    /\ NoSweep
    /\ pointFiniteFilter \in
          { Some(PointFiniteFilter(t, z, m)) : t \in FiniteFilterType,
                                               z \in BOOLEAN, m \in BOOLEAN }
    /\ geometry = None
    /\ passes = None
    /\ collection = None
    /\ copied = None

\* setType(type)
setType ==
    /\ \E t \in FiniteFilterType :
          pointFiniteFilter' = Some([Val(pointFiniteFilter) EXCEPT !.type = t])
    /\ geometry' = None
    /\ passes' = None
    /\ UNCHANGED << collection, copied >>
    /\ UNCHANGED sweepVars

\* setFilterZ(filterZ)
setFilterZ ==
    /\ \E z \in BOOLEAN :
          pointFiniteFilter' = Some([Val(pointFiniteFilter) EXCEPT !.filterZ = z])
    /\ geometry' = None
    /\ passes' = None
    /\ UNCHANGED << collection, copied >>
    /\ UNCHANGED sweepVars

\* setFilterM(filterM)
setFilterM ==
    /\ \E m \in BOOLEAN :
          pointFiniteFilter' = Some([Val(pointFiniteFilter) EXCEPT !.filterM = m])
    /\ geometry' = None
    /\ passes' = None
    /\ UNCHANGED << collection, copied >>
    /\ UNCHANGED sweepVars

\* a call of filter on a geometry
Filter ==
    /\ \E g \in Geometries :
          /\ geometry' = Some(g)
          /\ passes' = Some(filter(Val(pointFiniteFilter), g))
    /\ UNCHANGED << pointFiniteFilter, collection, copied >>
    /\ UNCHANGED sweepVars

NextFilter ==
    \/ setType
    \/ setFilterZ
    \/ setFilterM
    \/ Filter

SpecFilter == InitFilter /\ [][NextFilter]_vars

\* C16: with z and m filtering disabled, filter does not throw; on a point and for
\* type Finite it returns true exactly when x and y are finite, whatever z and m
\* are and whether or not they are defined; a geometry that is not a point passes.
C16_DependsOnXYOnly ==
    (/\ passes # None
     /\ ~Val(pointFiniteFilter).filterZ
     /\ ~Val(pointFiniteFilter).filterM) =>
        /\ passes # Some(Threw)
        /\ (Val(geometry).point /\ Val(pointFiniteFilter).type = Finite) =>
              passes = Some(Returns(/\ Val(geometry).x.k = "fin"
                                    /\ Val(geometry).y.k = "fin"))
        /\ ~Val(geometry).point => passes = Some(Returns(TRUE))

\* the place of a segment in the in-order sequence of the status structure
PlaceOf(key) == CHOOSE n \in DOMAIN sl.tree : sl.tree[n] = key

\* C17: right after add, the new segment's above is its successor and its below its
\* predecessor in the status structure (absent when there is none), and the
\* successor's below and the predecessor's above are the new segment.
C17_AddLinksNeighbours ==
    (Handled(Left) /\ LastKey \in Range(sl.tree)) =>
        LET n == PlaceOf(LastKey)
            segment == sl.segs[LastKey]
        IN /\ segment.above = (IF n < Len(sl.tree) THEN sl.tree[n + 1] ELSE None)
           /\ segment.below = (IF n > 1 THEN sl.tree[n - 1] ELSE None)
           /\ n < Len(sl.tree) => sl.segs[sl.tree[n + 1]].below = LastKey
           /\ n > 1 => sl.segs[sl.tree[n - 1]].above = LastKey

\* a segment has been added between two others
C17_Witness ==
    /\ Handled(Left)
    /\ pc = "Events"
    /\ Len(sl.tree) >= 3
    /\ LastKey \in Range(sl.tree)
    /\ PlaceOf(LastKey) = 2
    /\ sl.segs[LastKey].above = sl.tree[3]
    /\ sl.segs[LastKey].below = sl.tree[1]

Straddle(k1, k2) ==
    /\ isLeftPoints(EdgeFrom(k1), EdgeTo(k1), EdgeFrom(k2))
          * isLeftPoints(EdgeFrom(k1), EdgeTo(k1), EdgeTo(k2)) <= 0
    /\ isLeftPoints(EdgeFrom(k2), EdgeTo(k2), EdgeFrom(k1))
          * isLeftPoints(EdgeFrom(k2), EdgeTo(k2), EdgeTo(k1)) <= 0

\* two different edges, not consecutive, pass the straddle test
SomeStraddlingPair ==
    \E k1 \in Edges : \E k2 \in Edges :
        k1 # k2 /\ ~CyclicallyConsecutive(k1, k2) /\ Straddle(k1, k2)

\* C19: when the rings pass preprocessing and the call returns false, two edges of
\* the rings that are not consecutive pass the double-sided straddle test.
C19_FalseHasStraddlingPair ==
    (pc = "Done" /\ ValidRings(rings, inside) /\ result = Some(Returns(FALSE))) =>
        SomeStraddlingPair

\* the sweep returned false on the check of a Right event whose segment referred
\* to a neighbour that had left the status structure
C19_Witness ==
    /\ pc = "Done"
    /\ ValidRings(rings, inside)
    /\ result = Some(Returns(FALSE))
    /\ LastEvent.type = Right
    /\ intersect(sl, sl.segs[LastKey].above, sl.segs[LastKey].below)
    /\ \/ sl.segs[LastKey].above \notin Range(sl.tree)
       \/ sl.segs[LastKey].below \notin Range(sl.tree)

(* ---------------------- ExtendedGeometryCollection ---------------------- *)
(* A fourth specification: an ExtendedGeometryCollection is created,        *)
(* geometries are added, its geometry type is set or updated, and it is     *)
(* copied.  A collection is a record: editableGeometryType (None while      *)
(* unset), geometries (the geometry types of its elements), hasZ and hasM.  *)

\* a collection holds at most MaxGeometries geometries
MaxGeometries == 2

\* the geometry types of the elements added, and those handed to the setter
ElementTypes == {"Point", "LineString", "Polygon"}
CollectionTypes == {"GeometryCollection", "MultiCurve", "MultiSurface", "MultiPoint"}

\* ExtendedGeometryCollection.create(hasZ, hasM)
create(hasZ, hasM) ==
    [editableGeometryType |-> None, geometries |-> << >>, hasZ |-> hasZ, hasM |-> hasM]

\* GeometryCollection.addGeometry(geometry)
addGeometry(c, g) == [c EXCEPT !.geometries = Append(@, g)]

\* GeometryCollection.getCollectionType(): by the elements the collection holds
getCollectionType(c) ==
    IF \A n \in DOMAIN c.geometries : c.geometries[n] = "Point" THEN "MultiPoint"
    ELSE IF \A n \in DOMAIN c.geometries : c.geometries[n] = "LineString"
    THEN "MultiLineString"
    ELSE IF \A n \in DOMAIN c.geometries : c.geometries[n] = "Polygon"
    THEN "MultiPolygon"
    ELSE "GeometryCollection"

\* the setter of geometryType
setGeometryType(c, geometryType) ==
    [c EXCEPT !.editableGeometryType = Some(geometryType)]

\* updateGeometryType()
updateGeometryType(c) ==
    LET geometryType == getCollectionType(c)
    IN setGeometryType(c,
          CASE geometryType = "MultiPoint" -> "GeometryCollection"
            [] geometryType = "MultiLineString" -> "MultiCurve"
            [] geometryType = "MultiPolygon" -> "MultiSurface"
            [] OTHER -> geometryType)

\* the getter of geometryType: the type, or Threw
geometryType(c) ==
    IF c.editableGeometryType = None THEN Threw ELSE Val(c.editableGeometryType)

RECURSIVE addCopies(_, _, _)
addCopies(c, geometries, n) ==
    IF n > Len(geometries) THEN c
    ELSE addCopies(addGeometry(c, geometries[n]), geometries, n + 1)

\* copy()
copy(c) == addCopies(create(c.hasZ, c.hasM), c.geometries, 1)

\* equals(obj), obj an ExtendedGeometryCollection: Threw, or what it returns
equals(c, obj) ==
    IF geometryType(c) = Threw \/ geometryType(obj) = Threw THEN Threw
    ELSE Returns(geometryType(c) = geometryType(obj))

InitCollection ==
    /\ NoSweep
    /\ pointFiniteFilter = None
    /\ geometry = None
    /\ passes = None
    /\ collection \in { Some(create(z, m)) : z \in BOOLEAN, m \in BOOLEAN }
    /\ copied = None

filterVars == << pointFiniteFilter, geometry, passes >>

AddGeometry ==
    /\ Len(Val(collection).geometries) < MaxGeometries
    /\ \E g \in ElementTypes : collection' = Some(addGeometry(Val(collection), g))
    /\ copied' = None
    /\ UNCHANGED << sweepVars, filterVars >>

SetGeometryType ==
    /\ \E t \in CollectionTypes : collection' = Some(setGeometryType(Val(collection), t))
    /\ copied' = None
    /\ UNCHANGED << sweepVars, filterVars >>

UpdateGeometryType ==
    /\ collection' = Some(updateGeometryType(Val(collection)))
    /\ copied' = None
    /\ UNCHANGED << sweepVars, filterVars >>

Copy ==
    /\ copied' = Some(copy(Val(collection)))
    /\ UNCHANGED << collection, sweepVars, filterVars >>

NextCollection ==
    \/ AddGeometry
    \/ SetGeometryType
    \/ UpdateGeometryType
    \/ Copy

SpecCollection == InitCollection /\ [][NextCollection]_vars

\* C20: the copy of a collection whose geometry type is set reports the same
\* geometry type and the collection equals it; reading the geometry type throws
\* only on a collection whose type was never set.
C20_CopyKeepsGeometryType ==
    /\ (copied # None /\ Val(collection).editableGeometryType # None) =>
          /\ geometryType(Val(copied)) = geometryType(Val(collection))
          /\ equals(Val(collection), Val(copied)) = Returns(TRUE)
    /\ geometryType(Val(collection)) = Threw =>
          Val(collection).editableGeometryType = None

=============================================================================
